---- MODULE Spec2Model ----
(***************************************************************************)
(* Model of the scm-chaincode smart contract (Hyperledger Fabric, Go).     *)
(*                                                                         *)
(* The state is the world state of the ledger (key -> JSON document), the  *)
(* wall clock, and a record of the invocation being answered (function,    *)
(* arguments, creator, peer.Response, number of writes).  Each invocation  *)
(* of the chaincode runs to completion as one step.                        *)
(***************************************************************************)
EXTENDS Integers, Sequences, FiniteSets, TLC

\* ------------------------------------------------------------------ bounds
MaxOrders == 1     \* product orders stored in the world state (under Spec)
MaxPlaced == 2     \* product orders stored in the world state (under SpecOrders)
MaxIds == 3        \* UUIDs in use as keys and as ids of part orders
MaxTime == 2       \* the wall clock runs from 1 to MaxTime (under SpecClock)
MaxProcs == 2      \* invocations of orderProductPart in flight (under SpecRace)
MaxRaceIds == 4    \* UUIDs in use under SpecRace

\* --------------------------------------------------------------- strings
\* A string argument that is meant to carry a UUID.  form "canon" is the
\* lower-case hyphenated text that UUID.String() prints, form "upper" is the
\* same UUID in upper case (uuid.Parse decodes hex digits of either case),
\* form "bad" is a text uuid.Parse rejects.
Str(form, id) == [form |-> form, id |-> id]

NilUuid == 0       \* uuid.Nil, what uuid.Parse returns next to an error

\* uuid.Parse: the value and whether parsing failed
Parse(s) ==
    IF s.form = "bad" THEN [uuid |-> NilUuid, err |-> TRUE]
                      ELSE [uuid |-> s.id, err |-> FALSE]

\* UUID.String(): always the canonical form
String(u) == Str("canon", u)

\* ------------------------------------------------------ program constants
ProductId == Str("canon", 101)
ProductPartsTotalCount == 2
ProductPartIds == <<102, 103>>

VALID_PRODUCT_ORDER_STATES ==
    <<"ORDERED", "ACCEPTED", "MANUFACTURED", "DELIVERED", "REJECTED">>
ORDERED == VALID_PRODUCT_ORDER_STATES[1]
ACCEPTED == VALID_PRODUCT_ORDER_STATES[2]
MANUFACTURED == VALID_PRODUCT_ORDER_STATES[3]
DELIVERED == VALID_PRODUCT_ORDER_STATES[4]
REJECTED == VALID_PRODUCT_ORDER_STATES[5]

VALID_PRODUCT_PART_ORDER_STATES == <<"ORDERED", "DELIVERED">>
PART_ORDERED == VALID_PRODUCT_PART_ORDER_STATES[1]
PART_DELIVERED == VALID_PRODUCT_PART_ORDER_STATES[2]

Range(f) == {f[i] : i \in DOMAIN f}

\* productOrderStateIsInvalid with ORDERED taken out of the valid states
productOrderStateIsInvalidOrdered(code) ==
    ~(\E i \in 2..Len(VALID_PRODUCT_ORDER_STATES) :
          VALID_PRODUCT_ORDER_STATES[i] = code)

\* productOrderStateIsInvalid with the check left out
productOrderStateIsInvalidNever(code) == FALSE

\* productOrderStateIsInvalid looking at the first three states only
productOrderStateIsInvalidShort(code) ==
    ~(\E i \in 1..3 : VALID_PRODUCT_ORDER_STATES[i] = code)

productOrderStateIsInvalid(code) ==
    ~(\E i \in DOMAIN VALID_PRODUCT_ORDER_STATES :
          VALID_PRODUCT_ORDER_STATES[i] = code)

productPartOrderStateIsInvalid(code) ==
    ~(\E i \in DOMAIN VALID_PRODUCT_PART_ORDER_STATES :
          VALID_PRODUCT_PART_ORDER_STATES[i] = code)

\* isProductPartIdValid accepting every UUID that was parsed
isProductPartIdValidParsed(id) == id # NilUuid

isProductPartIdValid(id) ==
    \E i \in DOMAIN ProductPartIds : id = ProductPartIds[i]

\* ------------------------------------------------------------- identity
\* The creator of a transaction as the client identity library sees it:
\* mspErr / certErr say that cid.GetMSPID / cid.GetX509Certificate fail.
Creator(msp, cn, mspErr, certErr) ==
    [mspid |-> msp, issuerCN |-> cn, mspErr |-> mspErr, certErr |-> certErr]

getCreatorInfo(creator) ==
    IF creator.mspErr THEN [mspID |-> "", issuerCN |-> "", err |-> TRUE]
    ELSE IF creator.certErr THEN [mspID |-> "", issuerCN |-> "", err |-> TRUE]
    ELSE [mspID |-> creator.mspid, issuerCN |-> creator.issuerCN, err |-> FALSE]

\* An error value; kind "" is the nil error.
NoError == [kind |-> "", expected |-> "", actual |-> ""]

createAuthenticationFailedError(expectedMspID, actualMspID) ==
    [kind |-> "AuthenticationFailed", expected |-> expectedMspID,
     actual |-> actualMspID]

\* authenticateSupplier with the organisation left unchecked
authenticateSupplierByIssuer(creator) ==
    LET info == getCreatorInfo(creator) IN
    IF info.issuerCN = "ca.supplier.scmn.com"
    THEN NoError
    ELSE createAuthenticationFailedError("SupplierMSP", info.mspID)

authenticateSupplier(creator) ==
    LET info == getCreatorInfo(creator) IN
    IF info.mspID = "SupplierMSP" /\ info.issuerCN = "ca.supplier.scmn.com"
    THEN NoError
    ELSE createAuthenticationFailedError("SupplierMSP", info.mspID)

\* authenticateProducer with the issuer left unchecked
authenticateProducerByOrg(creator) ==
    LET info == getCreatorInfo(creator) IN
    IF info.mspID = "ProducerMSP"
    THEN NoError
    ELSE createAuthenticationFailedError("ProducerMSP", info.mspID)

authenticateProducer(creator) ==
    LET info == getCreatorInfo(creator) IN
    IF info.mspID = "ProducerMSP" /\ info.issuerCN = "ca.producer.scmn.com"
    THEN NoError
    ELSE createAuthenticationFailedError("ProducerMSP", info.mspID)

authenticateDistributor(creator) ==
    LET info == getCreatorInfo(creator) IN
    IF info.mspID = "DistributorMSP" /\ info.issuerCN = "ca.distributor.scmn.com"
    THEN NoError
    ELSE createAuthenticationFailedError("DistributorMSP", info.mspID)

authenticateCustomer(creator) ==
    LET info == getCreatorInfo(creator) IN
    IF info.mspID = "CustomerMSP" /\ info.issuerCN = "ca.customer.scmn.com"
    THEN NoError
    ELSE createAuthenticationFailedError("CustomerMSP", info.mspID)

\* ----------------------------------------------------------- data model
ZeroTime == 0      \* the zero time.Time

NilString == [nil |-> TRUE, val |-> ""]          \* a nil *string
PtrTo(s) == [nil |-> FALSE, val |-> s]           \* &s

\* The ProductOrder struct
ProductOrder(orderId, productId, total, parts, ordered, made, delivered, state, rejecter) ==
    [OrderId |-> orderId, ProductId |-> productId,
     ProductPartsTotalCount |-> total, ProductPartOrders |-> parts,
     OrderedTimestamp |-> ordered, ManufacturedTimestamp |-> made,
     DeliveredTimestamp |-> delivered, State |-> state,
     MspIdOfRejecter |-> rejecter]

\* ProductOrder{}: the zero value json.Unmarshal fills in
ZeroProductOrder ==
    ProductOrder(NilUuid, NilUuid, 0, <<>>, ZeroTime, ZeroTime, ZeroTime, "",
                 NilString)

\* The ProductPartOrder struct
ProductPartOrder(orderId, productPartId, ordered, delivered, state) ==
    [OrderId |-> orderId, ProductPartId |-> productPartId,
     OrderedTimestamp |-> ordered, DeliveredTimestamp |-> delivered,
     State |-> state]

\* json.Marshal of a ProductPartOrder: the struct tags name the members and
\* a UUID is written as its canonical text.
MarshalPart(p) ==
    [orderId |-> String(p.OrderId), productPartId |-> String(p.ProductPartId),
     orderedTimestamp |-> p.OrderedTimestamp,
     deliveredTimestamp |-> p.DeliveredTimestamp, state |-> p.State]

UnmarshalPart(j) ==
    ProductPartOrder(Parse(j.orderId).uuid, Parse(j.productPartId).uuid,
                     j.orderedTimestamp, j.deliveredTimestamp, j.state)

\* json.Marshal of a ProductOrder; a nil *string is written as null.
Marshal(o) ==
    [orderId |-> String(o.OrderId), productId |-> String(o.ProductId),
     productPartsTotalCount |-> o.ProductPartsTotalCount,
     productPartOrders |->
         [i \in DOMAIN o.ProductPartOrders |-> MarshalPart(o.ProductPartOrders[i])],
     orderedTimestamp |-> o.OrderedTimestamp,
     manufacturedTimestamp |-> o.ManufacturedTimestamp,
     deliveredTimestamp |-> o.DeliveredTimestamp, state |-> o.State,
     mspIdOfRejecter |->
         IF o.MspIdOfRejecter.nil THEN [null |-> TRUE, text |-> ""]
         ELSE [null |-> FALSE, text |-> o.MspIdOfRejecter.val]]

\* json.Unmarshal that finds no member for OrderedTimestamp and leaves the
\* field at its zero value
UnmarshalWithoutOrderedTimestamp(j) ==
    ProductOrder(Parse(j.orderId).uuid, Parse(j.productId).uuid,
                 j.productPartsTotalCount,
                 [i \in DOMAIN j.productPartOrders |->
                      UnmarshalPart(j.productPartOrders[i])],
                 ZeroTime, j.manufacturedTimestamp,
                 j.deliveredTimestamp, j.state,
                 IF j.mspIdOfRejecter.null THEN NilString
                 ELSE PtrTo(j.mspIdOfRejecter.text))

\* json.Unmarshal into a ProductOrder{}
Unmarshal(j) ==
    ProductOrder(Parse(j.orderId).uuid, Parse(j.productId).uuid,
                 j.productPartsTotalCount,
                 [i \in DOMAIN j.productPartOrders |->
                      UnmarshalPart(j.productPartOrders[i])],
                 j.orderedTimestamp, j.manufacturedTimestamp,
                 j.deliveredTimestamp, j.state,
                 IF j.mspIdOfRejecter.null THEN NilString
                 ELSE PtrTo(j.mspIdOfRejecter.text))

\* ------------------------------------------------------- the shim's stub
\* What one invocation sees: the world state, the creator of the
\* transaction, the UUID uuid.New() returns, the time time.Now() returns and
\* which call to the peer, if any, returns an error in this invocation:
\* PutState ("put"), GetStateByRange or GetHistoryForKey ("scan").
Stub(st, creator, newId, t, fault) ==
    [ledger |-> st, creator |-> creator, newId |-> newId, now |-> t,
     putOk |-> fault # "put", scanOk |-> fault # "scan"]

\* stub.GetState: the stored bytes, or nil bytes for an absent key (the
\* handlers drop the error result; reads are taken to be served).
GetState(stub, key) ==
    IF key \in DOMAIN stub.ledger
    THEN [isNil |-> FALSE, bytes |-> stub.ledger[key]]
    ELSE [isNil |-> TRUE, bytes |-> Marshal(ZeroProductOrder)]

\* stub.PutState: the world state after the write, and whether it failed
PutState(stub, key, value) ==
    IF stub.putOk
    THEN [ledger |-> [k \in DOMAIN stub.ledger \cup {key} |->
                          IF k = key THEN value ELSE stub.ledger[k]],
          err |-> FALSE]
    ELSE [ledger |-> stub.ledger, err |-> TRUE]

\* peer.Response
Error(kind) ==
    [status |-> "ERROR", kind |-> kind, expected |-> "", actual |-> "",
     payload |-> <<>>]

AuthError(e) ==
    [status |-> "ERROR", kind |-> e.kind, expected |-> e.expected,
     actual |-> e.actual, payload |-> <<>>]

Success(payload) ==
    [status |-> "OK", kind |-> "", expected |-> "", actual |-> "",
     payload |-> payload]

\* What a handler leaves behind: the world state, the response, the number
\* of PutState calls it issued and the number of UUIDs it drew.
Outcome(st, resp, puts, news) ==
    [ledger |-> st, resp |-> resp, puts |-> puts, news |-> news]

validateArgsCount(args, expectedCount) == Len(args) # expectedCount

\* ------------------------------------------------------------- handlers
\* placeProductOrder storing the order under the product's id
placeProductOrderKeyedByProduct(stub, args) ==
    LET authErr == authenticateCustomer(stub.creator) IN
    IF authErr.kind # "" THEN Outcome(stub.ledger, AuthError(authErr), 0, 0)
    ELSE IF validateArgsCount(args, 1)
    THEN Outcome(stub.ledger, Error("IncorrectArgs"), 0, 0)
    ELSE
    LET productId == Parse(args[1]) IN
    IF productId.err \/ productId.uuid # Parse(ProductId).uuid
    THEN Outcome(stub.ledger, Error("InvalidProductId"), 0, 0)
    ELSE
    LET orderId == stub.newId
        product == ProductOrder(orderId, productId.uuid, ProductPartsTotalCount,
                                <<>>, stub.now, ZeroTime, ZeroTime, ORDERED,
                                NilString)
        put == PutState(stub, String(productId.uuid), Marshal(product))
    IN  IF put.err THEN Outcome(put.ledger, Error("PutStateFailed"), 1, 1)
        ELSE Outcome(put.ledger, Success(<<>>), 1, 1)

\* placeProductOrder storing the order before it validates the product id
placeProductOrderWriteFirst(stub, args) ==
    LET authErr == authenticateCustomer(stub.creator) IN
    IF authErr.kind # "" THEN Outcome(stub.ledger, AuthError(authErr), 0, 0)
    ELSE IF validateArgsCount(args, 1)
    THEN Outcome(stub.ledger, Error("IncorrectArgs"), 0, 0)
    ELSE
    LET productId == Parse(args[1])
        orderId == stub.newId
        product == ProductOrder(orderId, productId.uuid, ProductPartsTotalCount,
                                <<>>, stub.now, ZeroTime, ZeroTime, ORDERED,
                                NilString)
        put == PutState(stub, String(orderId), Marshal(product))
    IN  IF put.err THEN Outcome(put.ledger, Error("PutStateFailed"), 1, 1)
        ELSE IF productId.err \/ productId.uuid # Parse(ProductId).uuid
        THEN Outcome(put.ledger, Error("InvalidProductId"), 1, 1)
        ELSE Outcome(put.ledger, Success(<<>>), 1, 1)

placeProductOrder(stub, args) ==
    LET authErr == authenticateCustomer(stub.creator) IN
    IF authErr.kind # "" THEN Outcome(stub.ledger, AuthError(authErr), 0, 0)
    ELSE IF validateArgsCount(args, 1)
    THEN Outcome(stub.ledger, Error("IncorrectArgs"), 0, 0)
    ELSE
    LET productId == Parse(args[1]) IN
    IF productId.err \/ productId.uuid # Parse(ProductId).uuid
    THEN Outcome(stub.ledger, Error("InvalidProductId"), 0, 0)
    ELSE
    LET orderId == stub.newId
        product == ProductOrder(orderId, productId.uuid, ProductPartsTotalCount,
                                <<>>, stub.now, ZeroTime, ZeroTime, ORDERED,
                                NilString)
        put == PutState(stub, String(orderId), Marshal(product))
    IN  IF put.err THEN Outcome(put.ledger, Error("PutStateFailed"), 1, 1)
        ELSE Outcome(put.ledger, Success(<<>>), 1, 1)

\* The guard on the number of part orders, off by one
allPartsOrderedStrict(productOrder) ==
    Len(productOrder.ProductPartOrders) > productOrder.ProductPartsTotalCount

\* The guard on the number of part orders
allPartsOrdered(productOrder) ==
    Len(productOrder.ProductPartOrders) >= productOrder.ProductPartsTotalCount

\* The loop, comparing with the part order's own id instead of its part id
partAlreadyOrderedByOrderId(productOrder, productPartId) ==
    \E i \in DOMAIN productOrder.ProductPartOrders :
        productPartId = productOrder.ProductPartOrders[i].OrderId

\* The loop left out
partAlreadyOrderedNever(productOrder, productPartId) == FALSE

\* The loop that looks for a part order of the same part
partAlreadyOrdered(productOrder, productPartId) ==
    \E i \in DOMAIN productOrder.ProductPartOrders :
        productPartId = productOrder.ProductPartOrders[i].ProductPartId

\* orderProductPart putting the new part order in front of the others
orderProductPartInFront(stub, args) ==
    LET authErr == authenticateProducer(stub.creator) IN
    IF authErr.kind # "" THEN Outcome(stub.ledger, AuthError(authErr), 0, 0)
    ELSE IF validateArgsCount(args, 2)
    THEN Outcome(stub.ledger, Error("IncorrectArgs"), 0, 0)
    ELSE
    LET productOrderId == Parse(args[1]) IN
    IF productOrderId.err
    THEN Outcome(stub.ledger, Error("InvalidProductOrderId"), 0, 0)
    ELSE
    LET productPartId == Parse(args[2]) IN
    IF productPartId.err \/ ~isProductPartIdValid(productPartId.uuid)
    THEN Outcome(stub.ledger, Error("InvalidProductPartId"), 0, 0)
    ELSE
    LET got == GetState(stub, String(productOrderId.uuid)) IN
    IF got.isNil
    THEN Outcome(stub.ledger, Error("ProductOrderNotFound"), 0, 0)
    ELSE
    LET productOrder == Unmarshal(got.bytes) IN
    IF allPartsOrdered(productOrder)
    THEN Outcome(stub.ledger, Error("AllPartsOrdered"), 0, 0)
    ELSE IF partAlreadyOrdered(productOrder, productPartId.uuid)
    THEN Outcome(stub.ledger, Error("PartAlreadyOrdered"), 0, 0)
    ELSE
    LET productPart == ProductPartOrder(stub.newId, productPartId.uuid,
                                        stub.now, ZeroTime, PART_ORDERED)
        updated == [productOrder EXCEPT !.ProductPartOrders =
                        <<productPart>> \o productOrder.ProductPartOrders]
        put == PutState(stub, String(productOrderId.uuid), Marshal(updated))
    IN  IF put.err THEN Outcome(put.ledger, Error("PutStateFailed"), 1, 1)
        ELSE Outcome(put.ledger, Success(<<>>), 1, 1)

orderProductPart(stub, args) ==
    LET authErr == authenticateProducer(stub.creator) IN
    IF authErr.kind # "" THEN Outcome(stub.ledger, AuthError(authErr), 0, 0)
    ELSE IF validateArgsCount(args, 2)
    THEN Outcome(stub.ledger, Error("IncorrectArgs"), 0, 0)
    ELSE
    LET productOrderId == Parse(args[1]) IN
    IF productOrderId.err
    THEN Outcome(stub.ledger, Error("InvalidProductOrderId"), 0, 0)
    ELSE
    LET productPartId == Parse(args[2]) IN
    IF productPartId.err \/ ~isProductPartIdValid(productPartId.uuid)
    THEN Outcome(stub.ledger, Error("InvalidProductPartId"), 0, 0)
    ELSE
    LET got == GetState(stub, String(productOrderId.uuid)) IN
    IF got.isNil
    THEN Outcome(stub.ledger, Error("ProductOrderNotFound"), 0, 0)
    ELSE
    LET productOrder == Unmarshal(got.bytes) IN
    IF allPartsOrdered(productOrder)
    THEN Outcome(stub.ledger, Error("AllPartsOrdered"), 0, 0)
    ELSE IF partAlreadyOrdered(productOrder, productPartId.uuid)
    THEN Outcome(stub.ledger, Error("PartAlreadyOrdered"), 0, 0)
    ELSE
    LET productPart == ProductPartOrder(stub.newId, productPartId.uuid,
                                        stub.now, ZeroTime, PART_ORDERED)
        updated == [productOrder EXCEPT !.ProductPartOrders =
                        Append(productOrder.ProductPartOrders, productPart)]
        put == PutState(stub, String(productOrderId.uuid), Marshal(updated))
    IN  IF put.err THEN Outcome(put.ledger, Error("PutStateFailed"), 1, 1)
        ELSE Outcome(put.ledger, Success(<<>>), 1, 1)

\* The loop over the authenticators with the supplier's left out
authenticateRejecterWithoutSupplier(creator) ==
    IF authenticateProducer(creator).kind = "" THEN NoError
    ELSE authenticateDistributor(creator)

\* The three authenticators tried in turn for REJECTED: the error of the
\* first one that accepts (nil), else the error of the last one.
authenticateRejecter(creator) ==
    IF authenticateProducer(creator).kind = "" THEN NoError
    ELSE IF authenticateSupplier(creator).kind = "" THEN NoError
    ELSE authenticateDistributor(creator)

changeProductOrderState(stub, args) ==
    IF validateArgsCount(args, 3)
    THEN Outcome(stub.ledger, Error("IncorrectArgs"), 0, 0)
    ELSE
    LET orderId == args[1]
        newProductOrderState == args[2]
        mspIdOfRejecter == args[3]
    IN
    IF productOrderStateIsInvalid(newProductOrderState)
    THEN Outcome(stub.ledger, Error("InvalidProductOrderState"), 0, 0)
    ELSE
    LET rejecting == newProductOrderState = REJECTED
        authErr ==
            IF newProductOrderState = ACCEPTED \/ newProductOrderState = MANUFACTURED
            THEN authenticateProducer(stub.creator)
            ELSE IF newProductOrderState = DELIVERED
            THEN authenticateDistributor(stub.creator)
            ELSE IF rejecting
            THEN authenticateRejecter(stub.creator)
            ELSE [kind |-> "UnknownStateAuthMapping", expected |-> "",
                  actual |-> ""]
    IN
    IF rejecting /\ authErr.kind # ""
    THEN Outcome(stub.ledger, Error("AuthenticationFailedRejected"), 0, 0)
    ELSE IF authErr.kind # ""
    THEN Outcome(stub.ledger, AuthError(authErr), 0, 0)
    ELSE
    LET got == GetState(stub, orderId) IN
    IF got.isNil
    THEN Outcome(stub.ledger, Error("ProductOrderNotFound"), 0, 0)
    ELSE
    LET productOrder == Unmarshal(got.bytes)
        o1 == [productOrder EXCEPT !.State = newProductOrderState]
        o2 == IF newProductOrderState = DELIVERED
              THEN [o1 EXCEPT !.DeliveredTimestamp = stub.now] ELSE o1
        o3 == IF mspIdOfRejecter # ""
              THEN [o2 EXCEPT !.MspIdOfRejecter = PtrTo(mspIdOfRejecter)] ELSE o2
        put == PutState(stub, orderId, Marshal(o3))
    IN  IF put.err THEN Outcome(put.ledger, Error("PutStateFailed"), 1, 0)
        ELSE Outcome(put.ledger, Success(<<>>), 1, 0)

\* The loop stopping at the first part order, whatever its id
FindPartOrderFirst(parts, id) == IF parts = <<>> THEN 0 ELSE 1

\* The index of the first part order with the given id, 0 when there is none
FindPartOrder(parts, id) ==
    IF \E i \in DOMAIN parts : parts[i].OrderId = id
    THEN CHOOSE i \in DOMAIN parts :
             /\ parts[i].OrderId = id
             /\ \A j \in DOMAIN parts : parts[j].OrderId = id => i <= j
    ELSE 0

changeProductPartOrderState(stub, args) ==
    IF validateArgsCount(args, 3)
    THEN Outcome(stub.ledger, Error("IncorrectArgs"), 0, 0)
    ELSE
    LET productOrderId == Parse(args[1]) IN
    IF productOrderId.err
    THEN Outcome(stub.ledger, Error("InvalidProductOrderId"), 0, 0)
    ELSE
    LET productPartOrderId == Parse(args[2]) IN
    IF productPartOrderId.err
    THEN Outcome(stub.ledger, Error("InvalidProductPartOrderId"), 0, 0)
    ELSE
    LET newState == args[3] IN
    IF productPartOrderStateIsInvalid(newState)
    THEN Outcome(stub.ledger, Error("InvalidProductPartOrderState"), 0, 0)
    ELSE
    LET authErr ==
            IF newState = PART_ORDERED THEN authenticateProducer(stub.creator)
            ELSE IF newState = PART_DELIVERED
            THEN authenticateSupplier(stub.creator)
            ELSE [kind |-> "UnknownStateAuthMapping", expected |-> "",
                  actual |-> ""]
    IN
    IF authErr.kind # "" THEN Outcome(stub.ledger, AuthError(authErr), 0, 0)
    ELSE
    LET got == GetState(stub, String(productOrderId.uuid)) IN
    IF got.isNil
    THEN Outcome(stub.ledger, Error("ProductOrderNotFound"), 0, 0)
    ELSE
    LET productOrder == Unmarshal(got.bytes)
        i == FindPartOrder(productOrder.ProductPartOrders, productPartOrderId.uuid)
    IN
    IF i = 0
    THEN Outcome(stub.ledger, Error("ProductPartOrderNotFound"), 0, 0)
    ELSE
    LET p1 == [productOrder.ProductPartOrders[i] EXCEPT !.State = newState]
        p2 == IF newState = PART_DELIVERED
              THEN [p1 EXCEPT !.DeliveredTimestamp = stub.now] ELSE p1
        updated == [productOrder EXCEPT !.ProductPartOrders[i] = p2]
        put == PutState(stub, String(productOrderId.uuid), Marshal(updated))
    IN  IF put.err THEN Outcome(put.ledger, Error("PutStateFailed"), 1, 0)
        ELSE Outcome(put.ledger, Success(<<>>), 1, 0)

\* The keys of a world state in the order a range scan lists them
RECURSIVE SortedKeys(_)
SortedKeys(keys) ==
    IF keys = {} THEN <<>>
    ELSE LET first == CHOOSE k \in keys : \A other \in keys : k.id <= other.id
         IN  <<first>> \o SortedKeys(keys \ {first})

queryAllProductOrders(stub, args) ==
    IF validateArgsCount(args, 0)
    THEN Outcome(stub.ledger, Error("IncorrectArgs"), 0, 0)
    ELSE IF ~stub.scanOk
    THEN Outcome(stub.ledger, Error("GetStateByRangeFailed"), 0, 0)
    ELSE
    LET keys == SortedKeys(DOMAIN stub.ledger) IN
    Outcome(stub.ledger,
            Success([i \in DOMAIN keys |-> stub.ledger[keys[i]]]), 0, 0)

\* The values the handler copies out come from the history log the peer
\* keeps for the key; the log is not part of this model, so the payload is
\* left empty here.
queryProductOrderHistory(stub, args) ==
    IF validateArgsCount(args, 1)
    THEN Outcome(stub.ledger, Error("IncorrectArgs"), 0, 0)
    ELSE IF ~stub.scanOk
    THEN Outcome(stub.ledger, Error("GetHistoryForKeyFailed"), 0, 0)
    ELSE Outcome(stub.ledger, Success(<<>>), 0, 0)

Invoke(stub, function, args) ==
    IF function = "placeProductOrder" THEN placeProductOrder(stub, args)
    ELSE IF function = "queryAllProductOrders"
    THEN queryAllProductOrders(stub, args)
    ELSE IF function = "changeProductOrderState"
    THEN changeProductOrderState(stub, args)
    ELSE IF function = "queryProductOrderHistory"
    THEN queryProductOrderHistory(stub, args)
    ELSE IF function = "orderProductPart" THEN orderProductPart(stub, args)
    ELSE IF function = "changeProductPartOrderState"
    THEN changeProductPartOrderState(stub, args)
    ELSE Outcome(stub.ledger, Error("InvalidFunction"), 0, 0)

\* The ids of the part orders stored in a world state
PartOrderIdsOf(st) ==
    UNION {{st[k].productPartOrders[i].orderId :
                i \in DOMAIN st[k].productPartOrders} : k \in DOMAIN st}

\* uuid.New() draws a random (version 4) UUID: one that differs from every
\* UUID in use, here the least such.
NewUuid(st) ==
    LET used == {k.id : k \in DOMAIN st \cup PartOrderIdsOf(st)}
    IN  CHOOSE n \in 1..(Cardinality(used) + 1) :
            /\ n \notin used
            /\ \A m \in 1..(n - 1) : m \in used

\* ---------------------------------------------------------------- state
VARIABLES
    ledger,   \* the world state: key (canonical UUID text) -> JSON document
    now,      \* the wall clock
    inv,      \* the invocation being answered: function, args, creator
    resp,     \* its peer.Response
    puts,     \* the number of PutState calls it issued
    calls     \* under SpecRace: the invocations of orderProductPart in flight

vars == <<ledger, now, inv, resp, puts, calls>>

\* ---------------------------------------------------------------- inputs
Customer == Creator("CustomerMSP", "ca.customer.scmn.com", FALSE, FALSE)
Producer == Creator("ProducerMSP", "ca.producer.scmn.com", FALSE, FALSE)
Supplier == Creator("SupplierMSP", "ca.supplier.scmn.com", FALSE, FALSE)
Distributor == Creator("DistributorMSP", "ca.distributor.scmn.com", FALSE, FALSE)

\* The four roles, a creator of the producer's organisation whose
\* certificate was issued by the supplier's CA, a creator of the customer's
\* organisation whose certificate was issued by the distributor's CA, and
\* two creators whose organisation id or certificate cannot be read.
Creators ==
    {Customer, Producer, Supplier, Distributor,
     Creator("ProducerMSP", "ca.supplier.scmn.com", FALSE, FALSE),
     Creator("CustomerMSP", "ca.distributor.scmn.com", FALSE, FALSE),
     Creator("ProducerMSP", "ca.producer.scmn.com", TRUE, FALSE),
     Creator("SupplierMSP", "ca.supplier.scmn.com", FALSE, TRUE)}

BadId == Str("bad", 0)                \* a text that is no UUID
FirstInUpperCase == Str("upper", 1)   \* the first UUID drawn, in upper case
Unknown == Str("canon", 104)          \* a UUID that is in use nowhere

\* Texts passed as the id of a part order
PartOrderIdArgs == PartOrderIdsOf(ledger) \cup {Unknown, BadId}

ProductIdArgs ==
    {ProductId, Str("upper", ProductId.id), Unknown, BadId}

PartIdArgs ==
    {Str("canon", ProductPartIds[i]) : i \in DOMAIN ProductPartIds}
        \cup {Unknown, BadId}

OrderStateArgs == Range(VALID_PRODUCT_ORDER_STATES) \cup {"BOGUS"}
PartStateArgs == Range(VALID_PRODUCT_PART_ORDER_STATES) \cup {"BOGUS"}
RejecterArgs == {"", "SupplierMSP"}

\* No invocation is being answered.
Idle ==
    [function |-> "", args |-> <<>>, creator |-> Creator("", "", FALSE, FALSE)]

\* An invocation of orderProductPart that is not serialized with the
\* others: phase "read" after its GetState, phase "done" after its return.
\* read is the world state its GetState saw.
Procs == 1..MaxProcs

NoCall ==
    [phase |-> "idle", creator |-> Idle.creator, args |-> <<>>, read |-> << >>,
     resp |-> Success(<<>>)]

\* ------------------------------------------------------------------ Init
\* The chaincode has been instantiated: Init wrote nothing and returned.
Init ==
    /\ ledger = << >>
    /\ now = 1
    /\ inv = Idle
    /\ resp = Success(<<>>)
    /\ puts = 0
    /\ calls = [p \in Procs |-> NoCall]

\* One transaction: the chaincode's Invoke runs to completion.
Transaction(function, args, faults) ==
    \E creator \in Creators, fault \in faults :
        LET out == Invoke(Stub(ledger, creator, NewUuid(ledger), now, fault),
                          function, args)
        IN  /\ inv = Idle
            /\ out.news > 0 => NewUuid(ledger) <= MaxIds
            /\ ledger' = out.ledger
            /\ now' = now
            /\ inv' = [function |-> function, args |-> args, creator |-> creator]
            /\ resp' = out.resp
            /\ puts' = out.puts
            /\ calls' = calls

\* The argument lists tried are the well-formed ones and those that differ
\* from a well-formed one in one place.
PlaceProductOrder ==
    /\ \E args \in {<<p>> : p \in ProductIdArgs} \cup {<<>>} :
           Transaction("placeProductOrder", args, {"none", "put"})
    /\ Cardinality(DOMAIN ledger') <= MaxOrders

OrderProductPart ==
    \E args \in {<<o, p>> : o \in DOMAIN ledger \cup {FirstInUpperCase},
                            p \in PartIdArgs}
                \cup {<<o, Str("canon", ProductPartIds[1])>> :
                          o \in {Unknown, BadId}}
                \cup {<<BadId>>} :
        Transaction("orderProductPart", args, {"none", "put"})

ChangeProductOrderState ==
    \E args \in {<<o, s, r>> : o \in DOMAIN ledger, s \in OrderStateArgs,
                               r \in RejecterArgs}
                \cup {<<FirstInUpperCase, ACCEPTED, "">>, <<BadId, ACCEPTED>>} :
        Transaction("changeProductOrderState", args, {"none", "put"})

ChangeProductPartOrderState ==
    \E args \in {<<o, p, s>> : o \in DOMAIN ledger \cup {FirstInUpperCase},
                               p \in PartOrderIdArgs, s \in PartStateArgs}
                \cup {<<o, Unknown, PART_DELIVERED>> : o \in {Unknown, BadId}}
                \cup {<<BadId, BadId>>} :
        Transaction("changeProductPartOrderState", args, {"none", "put"})

QueryAllProductOrders ==
    \E args \in {<<>>, <<BadId>>} :
        Transaction("queryAllProductOrders", args, {"none", "scan"})

QueryProductOrderHistory ==
    \E args \in {<<o>> : o \in DOMAIN ledger \cup {Unknown}} \cup {<<>>} :
        Transaction("queryProductOrderHistory", args, {"none", "scan"})

UnknownFunction ==
    Transaction("deleteProductOrder", <<>>, {"none"})

\* The response goes back to the client; the next transaction can start.
Respond ==
    /\ inv # Idle
    /\ inv' = Idle
    /\ resp' = Success(<<>>)
    /\ puts' = 0
    /\ UNCHANGED <<ledger, now, calls>>

Next ==
    \/ PlaceProductOrder
    \/ OrderProductPart
    \/ ChangeProductOrderState
    \/ ChangeProductPartOrderState
    \/ QueryAllProductOrders
    \/ QueryProductOrderHistory
    \/ UnknownFunction
    \/ Respond

\* No handler reads a timestamp or the clock's value to decide anything:
\* Spec holds the clock still, SpecClock lets it advance between
\* transactions.
Spec == Init /\ [][Next]_vars

\* SpecOrders follows several orders from their placement to the ordering of
\* their parts: up to MaxPlaced orders, none of which changes its state.
PlaceProductOrders ==
    /\ \E args \in {<<p>> : p \in ProductIdArgs} \cup {<<>>} :
           Transaction("placeProductOrder", args, {"none", "put"})
    /\ Cardinality(DOMAIN ledger') <= MaxPlaced

NextOrders ==
    \/ PlaceProductOrders
    \/ OrderProductPart
    \/ QueryAllProductOrders
    \/ Respond

SpecOrders == Init /\ [][NextOrders]_vars

\* SpecRace takes the ledger's serialization away from orderProductPart:
\* an invocation reads the order in one step and writes it in a later one,
\* and other invocations may read or write in between.
StartOrderProductPart ==
    \E p \in Procs, creator \in {Producer, Customer}, o \in DOMAIN ledger,
       i \in DOMAIN ProductPartIds :
        /\ inv = Idle
        /\ calls[p].phase # "read"
        /\ calls' = [calls EXCEPT ![p] =
                        [phase |-> "read", creator |-> creator,
                         args |-> <<o, Str("canon", ProductPartIds[i])>>,
                         read |-> ledger, resp |-> Success(<<>>)]]
        /\ UNCHANGED <<ledger, now, inv, resp, puts>>

\* The world state after the keys an invocation wrote are put into current;
\* before and after are the world state the invocation read and the one it
\* computed.
WriteBack(current, before, after) ==
    LET written == {k \in DOMAIN after :
                       k \notin DOMAIN before \/ after[k] # before[k]}
    IN  [k \in DOMAIN current \cup written |->
            IF k \in written THEN after[k] ELSE current[k]]

FinishOrderProductPart ==
    \E p \in Procs, fault \in {"none", "put"} :
        LET c == calls[p]
            out == orderProductPart(
                       Stub(c.read, c.creator, NewUuid(ledger), now, fault),
                       c.args)
        IN  /\ inv = Idle
            /\ c.phase = "read"
            /\ out.news > 0 => NewUuid(ledger) <= MaxRaceIds
            /\ ledger' = WriteBack(ledger, c.read, out.ledger)
            /\ calls' = [calls EXCEPT ![p] =
                            [c EXCEPT !.phase = "done", !.resp = out.resp]]
            /\ UNCHANGED <<now, inv, resp, puts>>

NextRace ==
    \/ PlaceProductOrder
    \/ StartOrderProductPart
    \/ FinishOrderProductPart
    \/ Respond

SpecRace == Init /\ [][NextRace]_vars

\* Time passes between two transactions.
Tick ==
    /\ inv = Idle
    /\ now < MaxTime
    /\ now' = now + 1
    /\ UNCHANGED <<ledger, inv, resp, puts, calls>>

NextClock == Next \/ Tick

SpecClock == Init /\ [][NextClock]_vars

\* SpecTimed follows one order while time passes: its placement, the
\* ordering of its parts and the changes of its state.
NextTimed ==
    \/ PlaceProductOrder
    \/ OrderProductPart
    \/ ChangeProductOrderState
    \/ Respond
    \/ Tick

SpecTimed == Init /\ [][NextTimed]_vars

\* ======================================================================
\* Properties
\* ======================================================================
Args == inv.args
NumArgs == Len(inv.args)
Stored(key) == key \in DOMAIN ledger
Failed(kind) == resp.status = "ERROR" /\ resp.kind = kind

\* The invocations of C1: a mutating operation requested by a creator that
\* is not the role authorized for it.
UnauthorizedOrderOperation ==
    \/ inv.function = "placeProductOrder" /\ inv.creator # Customer
    \/ inv.function = "orderProductPart" /\ inv.creator # Producer
    \/ /\ inv.function = "changeProductOrderState"
       /\ NumArgs = 3
       /\ \/ Args[2] \in {"ACCEPTED", "MANUFACTURED"} /\ inv.creator # Producer
          \/ Args[2] = "DELIVERED" /\ inv.creator # Distributor

UnauthorizedPartOperation ==
    /\ inv.function = "changeProductPartOrderState"
    /\ NumArgs = 3
    /\ \/ Args[3] = "ORDERED" /\ inv.creator # Producer
       \/ Args[3] = "DELIVERED" /\ inv.creator # Supplier

\* C1 as stated: every mutating operation requested by a creator that is not
\* the role authorized for it fails with AuthenticationFailed and leaves the
\* world state unchanged.
C1_UnauthorizedAlwaysAuthenticationFailed ==
    [][(UnauthorizedOrderOperation' \/ UnauthorizedPartOperation')
           => /\ resp'.status = "ERROR"
              /\ resp'.kind = "AuthenticationFailed"
              /\ ledger' = ledger]_vars

\* C1, amended: a mutating operation requested by a creator that is not the
\* role authorized for it fails and leaves the world state unchanged; it
\* fails with AuthenticationFailed, except that changeProductPartOrderState
\* parses its two ids first and fails with a validation error when the
\* order id or the part order id is malformed.
C1_UnauthorizedFails ==
    [][/\ UnauthorizedOrderOperation'
          => /\ resp'.status = "ERROR"
             /\ resp'.kind = "AuthenticationFailed"
             /\ ledger' = ledger
       /\ UnauthorizedPartOperation'
          => /\ resp'.status = "ERROR"
             /\ ledger' = ledger
             /\ resp'.kind =
                   IF Args'[1].form = "bad" THEN "InvalidProductOrderId"
                   ELSE IF Args'[2].form = "bad" THEN "InvalidProductPartOrderId"
                   ELSE "AuthenticationFailed"]_vars

\* The producer asks for DELIVERED on a stored order and is turned away:
\* the distributor is required.
C1_Witness ==
    /\ inv.function = "changeProductOrderState"
    /\ inv.creator = Producer
    /\ NumArgs = 3
    /\ Args[2] = "DELIVERED"
    /\ Stored(Args[1])
    /\ Failed("AuthenticationFailed")
    /\ resp.expected = "DistributorMSP"

\* C2: every stored order has at most productPartsTotalCount part orders,
\* no two of them for the same part, a state among the five order states,
\* and every part order has a whitelisted part id and a state among the two
\* part order states.
C2_OrderInvariant ==
    \A key \in DOMAIN ledger :
        LET order == ledger[key]
            parts == order.productPartOrders
        IN  /\ Len(parts) <= order.productPartsTotalCount
            /\ Len(parts) <= 2
            /\ \A i, j \in DOMAIN parts :
                   parts[i].productPartId = parts[j].productPartId => i = j
            /\ order.state \in
                   {"ORDERED", "ACCEPTED", "MANUFACTURED", "DELIVERED", "REJECTED"}
            /\ \A i \in DOMAIN parts :
                   /\ parts[i].productPartId \in
                          {Str("canon", 102), Str("canon", 103)}
                   /\ parts[i].state \in {"ORDERED", "DELIVERED"}

\* An order that has left ORDERED holds both parts, one of them delivered.
C2_Witness ==
    \E key \in DOMAIN ledger :
        /\ ledger[key].state = "MANUFACTURED"
        /\ Len(ledger[key].productPartOrders) = 2
        /\ ledger[key].productPartOrders[1].state = "DELIVERED"
        /\ ledger[key].productPartOrders[2].state = "ORDERED"

\* C3 as stated: DELIVERED and REJECTED are terminal; once a stored order
\* is in one of them, no invocation changes its state.
C3_TerminalStates ==
    [][\A key \in DOMAIN ledger :
           ledger[key].state \in {"DELIVERED", "REJECTED"}
               => /\ key \in DOMAIN ledger'
                  /\ ledger'[key].state = ledger[key].state]_vars

RejecterOf(st, key) == st[key].mspIdOfRejecter

\* C4 as stated: an order whose mspIdOfRejecter is present is REJECTED, and
\* a changeProductOrderState to another state than REJECTED leaves every
\* mspIdOfRejecter as it was.
C4_RejecterOnlyOnRejection ==
    [][/\ \A key \in DOMAIN ledger' :
              ~RejecterOf(ledger', key).null => ledger'[key].state = "REJECTED"
       /\ (/\ inv'.function = "changeProductOrderState"
           /\ Len(inv'.args) = 3
           /\ inv'.args[2] # "REJECTED")
              => \A key \in DOMAIN ledger :
                     RejecterOf(ledger', key) = RejecterOf(ledger, key)]_vars

\* C5: an invocation that returns an error leaves the world state as it
\* was; an invocation issues at most one PutState, and when it issues one
\* every validation has passed: the response is success or the error of
\* that write. The world state changes only by that write.
C5_NoPartialMutation ==
    [][inv' # Idle
           => /\ resp'.status = "ERROR" => ledger' = ledger
              /\ puts' <= 1
              /\ puts' = 1 => resp'.kind \in {"", "PutStateFailed"}
              /\ ledger' # ledger => puts' = 1 /\ resp'.status = "OK"]_vars

\* The producer's request for a part fails on a conflict without a write.
C5_Witness ==
    /\ inv.function = "orderProductPart"
    /\ Failed("PartAlreadyOrdered")
    /\ puts = 0
    /\ NumArgs = 2
    /\ Stored(String(Parse(Args[1]).uuid))

\* C6: a changeProductOrderState to REJECTED passes authentication exactly
\* when the creator is the producer, the supplier or the distributor; any
\* other creator gets the generic error for REJECTED, not the mismatch error
\* of a role, and the world state stays as it was.
C6_RejectedAuthentication ==
    [][(/\ inv'.function = "changeProductOrderState"
        /\ Len(inv'.args) = 3
        /\ inv'.args[2] = "REJECTED")
           => IF inv'.creator \in {Producer, Supplier, Distributor}
              THEN resp'.kind \in {"", "ProductOrderNotFound", "PutStateFailed"}
              ELSE /\ resp'.status = "ERROR"
                   /\ resp'.kind = "AuthenticationFailedRejected"
                   /\ ledger' = ledger]_vars

\* The customer tries to reject a stored order.
C6_Witness ==
    /\ inv.function = "changeProductOrderState"
    /\ inv.creator = Customer
    /\ NumArgs = 3
    /\ Args[2] = "REJECTED"
    /\ Stored(Args[1])
    /\ Failed("AuthenticationFailedRejected")

\* The order a well-formed orderProductPart of the producer addresses
AddressedOrder == String(Parse(Args[1]).uuid)

ProducerOrdersPart ==
    /\ inv.function = "orderProductPart"
    /\ inv.creator = Producer
    /\ NumArgs = 2
    /\ Args[1].form # "bad"

Whitelisted(text) ==
    text.form # "bad" /\ text.id \in {102, 103}

\* C7: once an order holds productPartsTotalCount part orders, every
\* orderProductPart of the producer on it fails and leaves it unchanged:
\* with AllPartsOrdered for a whitelisted part id, present or not, and with
\* some error for any other part id.
C7_AllPartsOrdered ==
    [][(/\ ProducerOrdersPart'
        /\ AddressedOrder' \in DOMAIN ledger
        /\ Len(ledger[AddressedOrder'].productPartOrders) = 2)
           => /\ resp'.status = "ERROR"
              /\ ledger' = ledger
              /\ Whitelisted(inv'.args[2]) => resp'.kind = "AllPartsOrdered"]_vars

\* The producer asks for a part of an order that holds both parts.
C7_Witness ==
    /\ ProducerOrdersPart
    /\ Stored(AddressedOrder)
    /\ Len(ledger[AddressedOrder].productPartOrders) = 2
    /\ Whitelisted(Args[2])
    /\ Failed("AllPartsOrdered")

\* The number of part orders of an order for the part a text names
EntriesFor(st, key, text) ==
    Cardinality({i \in DOMAIN st[key].productPartOrders :
                     st[key].productPartOrders[i].productPartId
                         = String(Parse(text).uuid)})

\* The producer asks again for a part the addressed order already holds.
ProducerOrdersPartAgain ==
    /\ ProducerOrdersPart'
    /\ AddressedOrder' \in DOMAIN ledger
    /\ Whitelisted(inv'.args[2])
    /\ EntriesFor(ledger, AddressedOrder', inv'.args[2]) > 0

\* C8 as stated: a second orderProductPart of the producer for the same
\* whitelisted part on the same order fails with PartAlreadyOrdered, and the
\* order keeps exactly one part order for that part.
C8_SecondRequestPartAlreadyOrdered ==
    [][ProducerOrdersPartAgain
           => /\ resp'.status = "ERROR"
              /\ resp'.kind = "PartAlreadyOrdered"
              /\ EntriesFor(ledger', AddressedOrder', inv'.args[2]) = 1]_vars

\* C8, amended: the second request fails, with PartAlreadyOrdered while the
\* order holds fewer than productPartsTotalCount part orders and with
\* AllPartsOrdered once it holds that many, and the order keeps exactly one
\* part order for that part.
C8_SecondRequestFails ==
    [][ProducerOrdersPartAgain
           => /\ resp'.status = "ERROR"
              /\ resp'.kind =
                    IF Len(ledger[AddressedOrder'].productPartOrders) < 2
                    THEN "PartAlreadyOrdered" ELSE "AllPartsOrdered"
              /\ ledger' = ledger
              /\ EntriesFor(ledger', AddressedOrder', inv'.args[2]) = 1]_vars

\* The second request for the only part of an order
C8_Witness ==
    /\ ProducerOrdersPart
    /\ Stored(AddressedOrder)
    /\ Len(ledger[AddressedOrder].productPartOrders) = 1
    /\ Whitelisted(Args[2])
    /\ EntriesFor(ledger, AddressedOrder, Args[2]) = 1
    /\ Failed("PartAlreadyOrdered")

\* C9: a successful placeProductOrder comes from the customer with the
\* valid product id and adds exactly one record, in state ORDERED with no
\* part orders, under a key that was not stored, leaving every stored
\* record as it was; with another product id the customer's
\* placeProductOrder fails with InvalidProductId and adds nothing.
C9_PlaceOrder ==
    [][inv'.function = "placeProductOrder"
           => /\ resp'.status = "OK"
                 => /\ inv'.creator = Customer
                    /\ Len(inv'.args) = 1
                    /\ inv'.args[1].form # "bad" /\ inv'.args[1].id = 101
                    /\ \E key \in DOMAIN ledger' \ DOMAIN ledger :
                           /\ DOMAIN ledger' = DOMAIN ledger \cup {key}
                           /\ ledger'[key].orderId = key
                           /\ ledger'[key].state = "ORDERED"
                           /\ ledger'[key].productPartOrders = <<>>
                    /\ \A key \in DOMAIN ledger : ledger'[key] = ledger[key]
              /\ (/\ inv'.creator = Customer
                  /\ Len(inv'.args) = 1
                  /\ (inv'.args[1].form = "bad" \/ inv'.args[1].id # 101))
                 => /\ resp'.status = "ERROR"
                    /\ resp'.kind = "InvalidProductId"
                    /\ ledger' = ledger]_vars

\* A second order has been placed next to a first one that holds a part.
C9_Witness ==
    /\ inv.function = "placeProductOrder"
    /\ resp.status = "OK"
    /\ Cardinality(DOMAIN ledger) = 2
    /\ \E key \in DOMAIN ledger : Len(ledger[key].productPartOrders) = 1

\* C10 as stated: a successful placeProductOrder returns the id of the
\* order it created, the key the new record is stored under.
C10_PlaceOrderReturnsOrderId ==
    (inv.function = "placeProductOrder" /\ resp.status = "OK")
        => /\ Len(resp.payload) = 1
           /\ resp.payload[1] \in DOMAIN ledger

\* A changeProductOrderState with three arguments for a stored order
ChangesStoredOrder ==
    /\ inv.function = "changeProductOrderState"
    /\ NumArgs = 3
    /\ Stored(Args[1])

\* The creator is the role the new order state asks for
AuthorizedFor(state, creator) ==
    \/ state \in {"ACCEPTED", "MANUFACTURED"} /\ creator = Producer
    \/ state = "DELIVERED" /\ creator = Distributor
    \/ state = "REJECTED" /\ creator \in {Producer, Supplier, Distributor}

\* C11: changeProductOrderState checks no adjacency: for a stored order in
\* any state and a new state among ACCEPTED, MANUFACTURED, DELIVERED and
\* REJECTED, the invocation of a creator authorized for the new state
\* succeeds and leaves the stored state equal to the new state; nothing but
\* a failed write makes it fail.
C11_AnyStateToAnyState ==
    [][(/\ ChangesStoredOrder'
        /\ inv'.args[1] \in DOMAIN ledger
        /\ AuthorizedFor(inv'.args[2], inv'.creator))
           => /\ resp'.kind \in {"", "PutStateFailed"}
              /\ resp'.status = "OK"
                    => ledger'[inv'.args[1]].state = inv'.args[2]]_vars

\* A DELIVERED order has been moved back to ACCEPTED by the producer.
C11_Witness ==
    /\ ChangesStoredOrder
    /\ inv.creator = Producer
    /\ Args[2] = "ACCEPTED"
    /\ resp.status = "OK"
    /\ ledger[Args[1]].state = "ACCEPTED"
    /\ ledger[Args[1]].deliveredTimestamp # 0

\* C12: an order's deliveredTimestamp is set once. It stays unset until a
\* changeProductOrderState to DELIVERED succeeds on that order, no later
\* invocation changes it once it is set, and when set it is not earlier than
\* orderedTimestamp.
C12_DeliveredTimestampSetOnce ==
    [][\A k \in DOMAIN ledger \cap DOMAIN ledger' :
          /\ ledger[k].deliveredTimestamp # ZeroTime
                => ledger'[k].deliveredTimestamp = ledger[k].deliveredTimestamp
          /\ ledger'[k].deliveredTimestamp # ledger[k].deliveredTimestamp
                => /\ inv'.function = "changeProductOrderState"
                   /\ inv'.args[1] = k
                   /\ inv'.args[2] = DELIVERED
                   /\ resp'.status = "OK"
          /\ ledger'[k].deliveredTimestamp # ZeroTime
                => ledger'[k].deliveredTimestamp >= ledger'[k].orderedTimestamp]_vars

\* The part orders of a stored order, each as its id and the id of its part
PartsOf(record) ==
    [i \in DOMAIN record.productPartOrders |->
        <<record.productPartOrders[i].orderId,
          record.productPartOrders[i].productPartId>>]

IsPrefix(s, t) ==
    /\ Len(s) <= Len(t)
    /\ \A i \in DOMAIN s : s[i] = t[i]

\* C13: an order's part list grows only by append. In every step each
\* stored order is still stored and the sequence of its part orders' ids
\* and part ids is a prefix of the sequence stored afterwards, so that no
\* part order is ever removed, reordered or replaced.
C13_PartListAppendOnly ==
    [][\A k \in DOMAIN ledger :
          /\ k \in DOMAIN ledger'
          /\ IsPrefix(PartsOf(ledger[k]), PartsOf(ledger'[k]))]_vars

\* The producer's second part order has been added behind the first.
C13_Witness ==
    /\ inv.function = "orderProductPart"
    /\ NumArgs = 2
    /\ resp.status = "OK"
    /\ Stored(Args[1])
    /\ Len(ledger[Args[1]].productPartOrders) = 2
    /\ ledger[Args[1]].productPartOrders[2].productPartId = Args[2]

\* Every record of the world state old is in new under the same key, with
\* the same orderId, productId, productPartsTotalCount and orderedTimestamp.
IdentityKept(old, new) ==
    \A k \in DOMAIN old :
        /\ k \in DOMAIN new
        /\ new[k].orderId = old[k].orderId
        /\ new[k].productId = old[k].productId
        /\ new[k].productPartsTotalCount = old[k].productPartsTotalCount
        /\ new[k].orderedTimestamp = old[k].orderedTimestamp

\* C14: a stored order is never deleted and its identity is immutable. No
\* step removes a record or changes its orderId, productId,
\* productPartsTotalCount or orderedTimestamp, and the invocation of the
\* step would not have done so at any other time or with any call to the
\* peer failing.
C14_NeverDeletedIdentityImmutable ==
    [][/\ IdentityKept(ledger, ledger')
       /\ inv' # Idle =>
              \A t \in 1..MaxTime, fault \in {"none", "put", "scan"} :
                  IdentityKept(ledger,
                      Invoke(Stub(ledger, inv'.creator, NewUuid(ledger), t, fault),
                             inv'.function, inv'.args).ledger)]_vars

\* The record of an order with a part order has been written again, by a
\* change of the order's state.
C14_Witness ==
    /\ inv.function = "changeProductOrderState"
    /\ resp.status = "OK"
    /\ puts = 1
    /\ Stored(Args[1])
    /\ Len(ledger[Args[1]].productPartOrders) > 0
    /\ ledger[Args[1]].orderedTimestamp # ZeroTime

\* The two invariants of a stored order: no more part orders than
\* productPartsTotalCount, no two part orders of the same part.
PartCountAndNoDuplicate(record) ==
    /\ Len(record.productPartOrders) <= record.productPartsTotalCount
    /\ \A i, j \in DOMAIN record.productPartOrders :
           i # j => record.productPartOrders[i].productPartId
                       # record.productPartOrders[j].productPartId

\* Two invocations of orderProductPart for the same order read the same
\* world state and both returned success: the second read before the first
\* wrote.
Interleaved(p, q) ==
    /\ p # q
    /\ calls[p].phase = "done" /\ calls[q].phase = "done"
    /\ calls[p].resp.status = "OK" /\ calls[q].resp.status = "OK"
    /\ calls[p].args[1] = calls[q].args[1]
    /\ calls[p].read = calls[q].read

\* C15 as stated: when two invocations of orderProductPart on the same order
\* interleave their GetState and PutState, the stored order ends up with more
\* than productPartsTotalCount part orders or with two part orders of the
\* same part.
C15_InterleavingBreaksInvariants ==
    \A p, q \in Procs :
        Interleaved(p, q) =>
            \E k \in DOMAIN ledger : ~PartCountAndNoDuplicate(ledger[k])

\* C15, amended: interleaved invocations of orderProductPart never break
\* the part-count and no-duplicate invariants, because each one writes the
\* whole record it read with one checked part order added. What depends on
\* serialization is that no write is lost: after a successful invocation the
\* stored order is the one that invocation read plus its one part order,
\* whatever was written in between.
C15_InterleavingLosesPartOrders ==
    [][/\ \A k \in DOMAIN ledger' : PartCountAndNoDuplicate(ledger'[k])
       /\ \A p \in Procs :
             (/\ calls[p].phase = "read"
              /\ calls'[p].phase = "done"
              /\ calls'[p].resp.status = "OK")
                => LET o == calls[p].args[1]
                   IN  /\ IsPrefix(PartsOf(calls[p].read[o]), PartsOf(ledger'[o]))
                       /\ Len(ledger'[o].productPartOrders)
                              = Len(calls[p].read[o].productPartOrders) + 1
                       /\ ledger'[o].productPartOrders[
                              Len(ledger'[o].productPartOrders)].productPartId
                              = calls[p].args[2]]_vars

\* Both interleaved invocations returned success for different parts and
\* the stored order holds one part order only.
C15_Witness ==
    \E p, q \in Procs :
        /\ Interleaved(p, q)
        /\ calls[p].args[2] # calls[q].args[2]
        /\ Len(ledger[calls[p].args[1]].productPartOrders) = 1

\* C16: changeProductOrderState with a new state that is none of ORDERED,
\* ACCEPTED, MANUFACTURED, DELIVERED, REJECTED fails with the invalid-state
\* error for every creator, authorized or not and identifiable or not, and
\* leaves the ledger unchanged.
C16_InvalidStateBeforeAuthentication ==
    [][(/\ inv'.function = "changeProductOrderState"
        /\ Len(inv'.args) = 3
        /\ inv'.args[2] \notin Range(VALID_PRODUCT_ORDER_STATES))
           => /\ resp'.status = "ERROR"
              /\ resp'.kind = "InvalidProductOrderState"
              /\ puts' = 0
              /\ ledger' = ledger]_vars

\* The customer, whom no order state authorizes, asked for BOGUS on a stored
\* order and got the invalid-state error.
C16_Witness ==
    /\ inv.function = "changeProductOrderState"
    /\ NumArgs = 3
    /\ Stored(Args[1])
    /\ Args[2] = "BOGUS"
    /\ inv.creator = Customer
    /\ Failed("InvalidProductOrderState")

\* The canonical text of the UUID an argument carries
Canonical(arg) == String(Parse(arg).uuid)

\* The positions in a stored order of the part orders with the given id
PositionsOf(record, id) ==
    {i \in DOMAIN record.productPartOrders :
        record.productPartOrders[i].orderId = id}

\* C17: a successful changeProductPartOrderState changes, in the whole
\* ledger, only the state of the one part order with the given id and, when
\* the new state is DELIVERED, its deliveredTimestamp. When the parent is
\* stored, the arguments are valid and the creator is authorized but no part
\* order of the parent has the given id, it fails with the part-order-not-
\* found error and writes nothing.
C17_ChangesOnePartOrderOnly ==
    [][(/\ inv'.function = "changeProductPartOrderState"
        /\ Len(inv'.args) = 3)
          => LET o == Canonical(inv'.args[1])
                 id == Canonical(inv'.args[2])
                 newState == inv'.args[3]
             IN  /\ resp'.status = "OK" =>
                       /\ o \in DOMAIN ledger
                       /\ \E i \in PositionsOf(ledger[o], id) :
                             /\ PositionsOf(ledger[o], id) = {i}
                             /\ ledger' = [ledger EXCEPT ![o].productPartOrders[i] =
                                    [@ EXCEPT !.state = newState,
                                              !.deliveredTimestamp =
                                                  IF newState = PART_DELIVERED
                                                  THEN now' ELSE @]]
                 /\ (/\ ~Parse(inv'.args[1]).err
                     /\ ~Parse(inv'.args[2]).err
                     /\ o \in DOMAIN ledger
                     /\ PositionsOf(ledger[o], id) = {}
                     /\ \/ newState = PART_ORDERED /\ inv'.creator = Producer
                        \/ newState = PART_DELIVERED /\ inv'.creator = Supplier)
                       => /\ resp'.status = "ERROR"
                          /\ resp'.kind = "ProductPartOrderNotFound"
                          /\ puts' = 0
                          /\ ledger' = ledger]_vars

\* The supplier has delivered the second of two part orders: the first is
\* still ORDERED and the parent is as it was placed.
C17_Witness ==
    /\ inv.function = "changeProductPartOrderState"
    /\ NumArgs = 3
    /\ resp.status = "OK"
    /\ Args[3] = PART_DELIVERED
    /\ Stored(Canonical(Args[1]))
    /\ LET record == ledger[Canonical(Args[1])]
       IN  /\ Len(record.productPartOrders) = 2
           /\ record.productPartOrders[2].orderId = Canonical(Args[2])
           /\ record.productPartOrders[2].state = PART_DELIVERED
           /\ record.productPartOrders[2].deliveredTimestamp = now
           /\ record.productPartOrders[1].state = PART_ORDERED
           /\ record.productPartOrders[1].deliveredTimestamp = ZeroTime
           /\ record.state = ORDERED

\* The supplier asked to deliver a part order that the stored parent, which
\* has part orders, does not hold.
C17_WitnessNotFound ==
    /\ inv.function = "changeProductPartOrderState"
    /\ NumArgs = 3
    /\ inv.creator = Supplier
    /\ Stored(Canonical(Args[1]))
    /\ Len(ledger[Canonical(Args[1])].productPartOrders) > 0
    /\ Failed("ProductPartOrderNotFound")

\* C18: changeProductOrderState with new state ORDERED fails for every
\* creator with the error of the missing authentication mapping, although
\* ORDERED is a valid state. So an order that has left ORDERED never is
\* ORDERED again, and only placeProductOrder stores an order that is ORDERED.
C18_OrderedNeverReentered ==
    [][/\ (/\ inv'.function = "changeProductOrderState"
           /\ Len(inv'.args) = 3
           /\ inv'.args[2] = ORDERED)
              => /\ resp'.status = "ERROR"
                 /\ resp'.kind = "UnknownStateAuthMapping"
                 /\ puts' = 0
                 /\ ledger' = ledger
       /\ \A k \in DOMAIN ledger' :
             ledger'[k].state = ORDERED
                => \/ k \in DOMAIN ledger /\ ledger[k].state = ORDERED
                   \/ /\ k \notin DOMAIN ledger
                      /\ inv'.function = "placeProductOrder"
                      /\ resp'.status = "OK"]_vars

\* The producer asked to put an order that has left ORDERED back to ORDERED
\* and got the error of the missing authentication mapping.
C18_Witness ==
    /\ inv.function = "changeProductOrderState"
    /\ NumArgs = 3
    /\ Args[2] = ORDERED
    /\ inv.creator = Producer
    /\ Stored(Args[1])
    /\ ledger[Args[1]].state # ORDERED
    /\ Failed("UnknownStateAuthMapping")

\* The invocation invk of a role-gated function gets as far as its
\* authentication.
AuthenticationReached(invk) ==
    \/ invk.function \in {"placeProductOrder", "orderProductPart"}
    \/ /\ invk.function = "changeProductOrderState"
       /\ Len(invk.args) = 3
       /\ invk.args[2] \in {ACCEPTED, MANUFACTURED, DELIVERED, REJECTED}
    \/ /\ invk.function = "changeProductPartOrderState"
       /\ Len(invk.args) = 3
       /\ ~Parse(invk.args[1]).err
       /\ ~Parse(invk.args[2]).err
       /\ invk.args[3] \in Range(VALID_PRODUCT_PART_ORDER_STATES)

\* C19: when the lookup of the creator's MSP id or certificate fails, every
\* role-gated function fails with an identity-unavailable error, not with an
\* authentication mismatch, and the ledger is unchanged.
C19_LookupFailurePropagated ==
    [][(/\ AuthenticationReached(inv')
        /\ getCreatorInfo(inv'.creator).err)
           => /\ resp'.status = "ERROR"
              /\ resp'.kind = "IdentityUnavailable"
              /\ ledger' = ledger]_vars

\* The four roles and the authenticator of each
Roles == {Customer, Producer, Supplier, Distributor}

Authenticate(role, creator) ==
    IF role = Customer THEN authenticateCustomer(creator)
    ELSE IF role = Producer THEN authenticateProducer(creator)
    ELSE IF role = Supplier THEN authenticateSupplier(creator)
    ELSE authenticateDistributor(creator)

\* A readable identity that has one half of some role's pair and is no role
HalfMatching(creator) ==
    /\ ~getCreatorInfo(creator).err
    /\ creator \notin Roles
    /\ \E role \in Roles :
           creator.mspid = role.mspid \/ creator.issuerCN = role.issuerCN

\* C20: a role's authenticator accepts a creator exactly when both the
\* creator's organisation id and the issuer name of its certificate are the
\* role's pair. A creator with one half of a pair only is rejected by every
\* role-gated function and no invocation of it changes the ledger.
C20_BothHalvesRequired ==
    [][/\ \A role \in Roles, org \in Roles, issuer \in Roles :
             (Authenticate(role, Creator(org.mspid, issuer.issuerCN,
                                         FALSE, FALSE)) = NoError)
                <=> (org = role /\ issuer = role)
       /\ HalfMatching(inv'.creator)
             => /\ ledger' = ledger
                /\ AuthenticationReached(inv')
                      => /\ resp'.status = "ERROR"
                         /\ resp'.kind \in {"AuthenticationFailed",
                                             "AuthenticationFailedRejected"}]_vars

\* A creator of the producer's organisation whose certificate the supplier's CA issued asked for a part of a stored
\* order, which the producer may do, and was rejected.
C20_Witness ==
    /\ inv.function = "orderProductPart"
    /\ NumArgs = 2
    /\ Stored(Args[1])
    /\ inv.creator = Creator("ProducerMSP", "ca.supplier.scmn.com", FALSE, FALSE)
    /\ Failed("AuthenticationFailed")
    /\ resp.expected = "ProducerMSP"
    /\ resp.actual = "ProducerMSP"

====
